---------------------------- MODULE Spec2Model ----------------------------
(***************************************************************************)
(* A model of ediff (src/ediff.c): a parent process builds two pipes,      *)
(* re-homes their descriptors above DIFF_MAXFD, forks two producers (one   *)
(* shell command each) and a consumer (diff on /proc/self/fd/3 and         *)
(* /proc/self/fd/4), closes its own pipe descriptors and waits for the     *)
(* consumer.                                                               *)
(*                                                                         *)
(* Every operating-system call that can fail does so nondeterministically. *)
(* close() always releases its descriptor.  The environment variable SHELL *)
(* is modelled as unset.                                                   *)
(***************************************************************************)
EXTENDS Integers, Sequences, FiniteSets, TLC

(***************************************************************************)
(* Program constants.                                                      *)
(***************************************************************************)
DIFF_MAXFD == 4

DEFAULT_SHELL == "/bin/sh"

DIFF_CMD == "diff"

(***************************************************************************)
(* Bounds of the model.                                                    *)
(***************************************************************************)
\* Descriptor numbers are 0 .. OpenMax-1 (the process's descriptor limit).
OpenMax == 12

\* The caller may hand over any subset of 0 .. MaxInitFd as open descriptors.
MaxInitFd == 4

\* ArgVector specification: starting capacities 1 .. MaxCap0.
MaxCap0 == 3

\* ArgVector specification: at most MaxPush calls of args_add.
MaxPush == 5

\* Argument specification: at most MaxFlags arguments before the two commands.
MaxFlags == 2

\* At most MaxFaults calls fail in one run for no reason the model knows (a
\* call that must fail, such as fcntl on a closed descriptor, always fails).
MaxFaults == 1

\* Data flow specification: each command writes MaxOut bytes.
MaxOut == 2

\* Data flow specification: a pipe holds at most PipeCap bytes.
PipeCap == 1

(***************************************************************************)
(* struct args: capacity, argc, argv[0 .. capacity-1].                     *)
(* A slot is NULL, a string, or uninitialised memory.  A string slot holds *)
(* the address p it points to ("heap" for a cell of its own, otherwise the *)
(* caller's buffer) and the bytes s now stored there.  An uninitialised    *)
(* slot stands for any value at all: it equals neither NULL nor a string.  *)
(***************************************************************************)
NullSlot == [k |-> "null", p |-> "", s |-> ""]

UninitSlot == [k |-> "uninit", p |-> "", s |-> ""]

NoArgs == [capacity |-> 0, argc |-> 0, argv |-> <<>>, res |-> "none"]

\* args_init: calloc zeroes every slot.  res is "ok", or the name of the
\* call that failed.  fail: "none", or the call that is to fail.
ArgsInit(starting_capacity, fail) ==
    IF fail = "calloc"
    THEN [NoArgs EXCEPT !.res = "calloc"]
    ELSE [capacity |-> starting_capacity,
          argc     |-> 0,
          argv     |-> [n \in 0..(starting_capacity - 1) |-> NullSlot],
          res      |-> "ok"]

\* strdup(s): a fresh heap cell holding the bytes now at s.
Strdup(s, bytes) == [k |-> "str", p |-> "heap", s |-> bytes]

\* A mutant of GrowCond: grows one push too late.
GrowCondLate(a) == a.argc = a.capacity

\* The test of line 64.
GrowCond(a) == a.argc + 1 = a.capacity

\* realloc to the doubled capacity: the old slots are kept, the new area is
\* not initialised.
Grow(a) ==
    [a EXCEPT !.capacity = 2 * a.capacity,
              !.argv = [n \in 0..(2 * a.capacity - 1) |->
                           IF n < a.capacity THEN a.argv[n] ELSE UninitSlot]]

\* Writing argv[n]: a write past the allocation is recorded in res.
Store(a, n, v) ==
    IF n \in DOMAIN a.argv
    THEN [a EXCEPT !.argv[n] = v]
    ELSE [a EXCEPT !.res = "overflow"]

\* args_add(a, s), where bytes is the string at s when the call is made.
\* fail: "none", or the call that is to fail ("realloc", or "malloc" for
\* strdup).
ArgsAdd(a, s, bytes, fail) ==
    IF ~(a.argc < a.capacity) THEN [a EXCEPT !.res = "assert"]
    ELSE IF GrowCond(a) /\ fail = "realloc" THEN [a EXCEPT !.res = "realloc"]
    ELSE IF fail = "malloc" THEN [a EXCEPT !.res = "malloc"]
    ELSE LET g == IF GrowCond(a) THEN Grow(a) ELSE a
             h == [g EXCEPT !.argc = g.argc + 1]
         IN  Store(Store(h, h.argc - 1, Strdup(s, bytes)), h.argc, NullSlot)

\* The strings of argv[0 .. argc).
ArgStrings(a) == [n \in 1..a.argc |-> a.argv[n - 1].s]

(***************************************************************************)
(* The ArgVector on its own: args_init with any starting capacity, then    *)
(* any sequence of args_add calls from a caller that reuses one buffer.    *)
(***************************************************************************)
VARIABLES
    av,        \* the struct args under test
    cbuf,      \* the bytes now in the caller's buffer
    pushed     \* the strings pushed so far, in order

argvars == <<av, cbuf, pushed>>

BufStrings == {"x", "y"}

ArgInit ==
    /\ \E c \in 1..MaxCap0 : av = ArgsInit(c, "none")
    /\ cbuf \in BufStrings
    /\ pushed = <<>>

\* One call args_add(&av, buf).
AAdd ==
    /\ av.res = "ok"
    /\ Len(pushed) < MaxPush
    /\ \E fail \in {"none", "realloc", "malloc"} :
          LET r == ArgsAdd(av, "buf", cbuf, fail)
          IN  /\ av' = r
              /\ pushed' = IF r.res = "ok" THEN Append(pushed, cbuf) ELSE pushed
    /\ UNCHANGED cbuf

\* The caller overwrites its buffer between two calls: every slot that
\* still points into the buffer sees the new bytes.
AReuse ==
    /\ av.res = "ok"
    /\ \E v \in BufStrings \ {cbuf} :
          /\ cbuf' = v
          /\ av' = [av EXCEPT !.argv = [n \in DOMAIN av.argv |->
                        IF av.argv[n].k = "str" /\ av.argv[n].p = "buf"
                        THEN [av.argv[n] EXCEPT !.s = v] ELSE av.argv[n]]]
    /\ UNCHANGED pushed


(***************************************************************************)
(* Descriptor tables.  An entry names the stream it refers to (pipe "A" or *)
(* "B", a process name for that process's always-EOF pipe, "ext" for a     *)
(* stream the caller handed over, "none" when closed), which end of it,    *)
(* and the close-on-exec flag.                                             *)
(***************************************************************************)
Procs == {"parent", "ca", "cb", "cdiff"}

Children == {"ca", "cb", "cdiff"}

Producers == {"ca", "cb"}

FdNums == 0..(OpenMax - 1)

ClosedFd == [pipe |-> "none", end |-> "x", cx |-> FALSE]

ExtFd == [pipe |-> "ext", end |-> "x", cx |-> FALSE]

NoTable == [n \in FdNums |-> ClosedFd]

IsOpen(tab, n) == n \in FdNums /\ tab[n].pipe # "none"

Free(tab, ge) == {n \in FdNums : n >= ge /\ tab[n].pipe = "none"}

Min(S) == CHOOSE m \in S : \A n \in S : m <= n

NoPair == [r |-> -1, w |-> -1]

\* pipe(): the two lowest free descriptor numbers, read end first; NoPair
\* when fewer than two are free.
PipeFds(tab) ==
    IF Cardinality(Free(tab, 0)) < 2 THEN NoPair
    ELSE LET r == Min(Free(tab, 0))
         IN  [r |-> r, w |-> Min(Free(tab, 0) \ {r})]

\* The table after a successful pipe() returned pr for stream name.
PipeOpen(tab, pr, name) ==
    [tab EXCEPT ![pr.r] = [pipe |-> name, end |-> "r", cx |-> FALSE],
                ![pr.w] = [pipe |-> name, end |-> "w", cx |-> FALSE]]

\* A mutant of XdupGe: plain dup(), the lowest free number of all.
XdupAny(tab, fd, ge) ==
    IF ~IsOpen(tab, fd) \/ Free(tab, 0) = {} THEN -1 ELSE Min(Free(tab, 0))

\* xdup_ge: fcntl(fd, F_DUPFD_CLOEXEC, ge) returns the lowest free number
\* at or above ge, or -1.
XdupGe(tab, fd, ge) ==
    IF ~IsOpen(tab, fd) \/ Free(tab, ge) = {} THEN -1 ELSE Min(Free(tab, ge))

\* A mutant of XdupTab: F_DUPFD, which leaves the flag clear.
XdupTabPlain(tab, fd, newfd) == [tab EXCEPT ![newfd] = [tab[fd] EXCEPT !.cx = FALSE]]

\* The table after F_DUPFD_CLOEXEC returned newfd: same stream, flag set.
XdupTab(tab, fd, newfd) == [tab EXCEPT ![newfd] = [tab[fd] EXCEPT !.cx = TRUE]]

\* dup2(old, new) when it succeeds: new refers to old's stream, with the
\* close-on-exec flag clear; nothing changes when old = new.
Dup2(tab, old, new) ==
    IF old = new THEN tab ELSE [tab EXCEPT ![new] = [tab[old] EXCEPT !.cx = FALSE]]

\* Whether dup2(old, new) can succeed at all.
Dup2Valid(tab, old, new) == IsOpen(tab, old) /\ new \in FdNums

\* close(fd).
Close(tab, fd) == IF fd \in FdNums THEN [tab EXCEPT ![fd] = ClosedFd] ELSE tab

\* clear_cloexec(fd): res is "ok" or the diagnostic of the failed call.
ClearCloexec(tab, fd, fail) ==
    IF ~IsOpen(tab, fd) \/ fail = "get" THEN [res |-> "fcntl F_GETFD", tab |-> tab]
    ELSE IF fail = "set" THEN [res |-> "fcntl F_SETFD", tab |-> tab]
    ELSE [res |-> "ok", tab |-> [tab EXCEPT ![fd].cx = FALSE]]

\* A mutant of ClosedReader: without the test fd != pipes[0] of line 91.
ClosedReaderNoTest(tab, fd, name, fail) ==
    LET pr == PipeFds(tab)
    IN  IF fail = "pipe" \/ pr = NoPair THEN [res |-> "pipe", tab |-> tab]
        ELSE LET t1 == Close(PipeOpen(tab, pr, name), pr.w)
             IN  IF fail = "dup2" THEN [res |-> "dup2", tab |-> t1]
                 ELSE [res |-> "ok", tab |-> Close(Dup2(t1, pr.r, fd), pr.r)]

\* closed_reader(fd) with a pipe named name: res is "ok" or the diagnostic.
ClosedReader(tab, fd, name, fail) ==
    LET pr == PipeFds(tab)
    IN  IF fail = "pipe" \/ pr = NoPair THEN [res |-> "pipe", tab |-> tab]
        ELSE LET t1 == Close(PipeOpen(tab, pr, name), pr.w)
             IN  IF fd = pr.r THEN [res |-> "ok", tab |-> t1]
                 ELSE IF fail = "dup2" THEN [res |-> "dup2", tab |-> t1]
                 ELSE [res |-> "ok", tab |-> Close(Dup2(t1, pr.r, fd), pr.r)]

\* What exec does to a table: close-on-exec descriptors are closed.
ExecClose(tab) == [n \in FdNums |-> IF tab[n].cx THEN ClosedFd ELSE tab[n]]

(***************************************************************************)
(* The processes.                                                          *)
(***************************************************************************)
VARIABLES
    argvIn,    \* main's argv, argv[0] first
    initTab,   \* the descriptor table the caller handed over
    fds,       \* each process's descriptor table
    pc,        \* each process's next step
    st,        \* "unborn", "running" or "exited"
    code,      \* exit status of an exited process
    diag,      \* what the process wrote to standard error before exiting
    a,         \* each process's struct args a
    p,         \* main's p[2]
    pa,        \* main's pa[2]
    pb,        \* main's pb[2]
    i,         \* main's loop counter
    wstatus,   \* main's status, as stored by waitpid
    execArgv,  \* the program and argument list each process exec'd
    origs,     \* the descriptor numbers pipe() returned to the parent
    did,       \* the steps each process has executed
    bad,       \* the steps of each process whose call failed
    faults     \* how many calls have failed for no reason the model knows

mainvars == <<argvIn, initTab, fds, pc, st, code, diag, a, p, pa, pb, i,
              wstatus, execArgv, origs, did, bad, faults>>

\* The data in flight between the programs the children exec.
VARIABLES
    left,      \* the bytes each command has still to write
    buf,       \* the bytes now held in pipe A and in pipe B
    cur,       \* the descriptor diff is reading from, 0 between two reads
    seen       \* the descriptors on which diff has read end-of-stream

iovars == <<left, buf, cur, seen>>

vars == <<mainvars, argvars, iovars>>

\* A mutant of ParentSeq: the parent closes its pipe descriptors before the
\* last fork.
ParentSeqEarlyClose ==
    <<"args_init", "add_diff", "check", "add_u", "flags",
      "pipeA", "dupA0", "dupA1", "closeA0", "closeA1",
      "pipeB", "dupB0", "dupB1", "closeB0", "closeB1",
      "forkA", "forkB",
      "closePa0", "closePa1", "closePb0", "closePb1", "forkD", "wait", "ret">>

\* The steps of main in the parent, in program order.
ParentSeq ==
    <<"args_init", "add_diff", "check", "add_u", "flags",
      "pipeA", "dupA0", "dupA1", "closeA0", "closeA1",
      "pipeB", "dupB0", "dupB1", "closeB0", "closeB1",
      "forkA", "forkB", "forkD",
      "closePa0", "closePa1", "closePb0", "closePb1", "wait", "ret">>

\* The steps of producer() in a producer child.
ProducerSeq == <<"dup2", "clr", "eof", "exec", "run">>

\* The steps of the consumer child.
ConsumerSeq ==
    <<"dup3", "dup4", "clr3", "clr4", "eof",
      "add1", "add2", "add3", "add4", "add5", "add6", "exec", "run">>

SeqOf(q) ==
    IF q = "parent" THEN ParentSeq
    ELSE IF q = "cdiff" THEN ConsumerSeq ELSE ProducerSeq

Pos(q, l) == CHOOSE n \in 1..Len(SeqOf(q)) : SeqOf(q)[n] = l

\* The step after l in q's program.
After(q, l) == SeqOf(q)[Pos(q, l) + 1]

argc == Len(argvIn)

\* C's argv[n].
Argv(n) == argvIn[n + 1]

\* A mutant of UsageCond: one argument too few is let through.
UsageCondOff == argc < 2

\* The test of line 153.
UsageCond == argc < 3

\* A mutant of FlagLoopCond: the loop runs one argument too far.
FlagLoopCondOff(n) == n < argc - 1

\* The loop test of line 163.
FlagLoopCond(n) == n < argc - 2

\* Lines 167-168.
CmdA == Argv(argc - 2)

CmdB == Argv(argc - 1)

\* A mutant of LabelArgs: the two paths are exchanged.
LabelArgsSwapped ==
    <<"--label", CmdA, "/proc/self/fd/4", "--label", CmdB, "/proc/self/fd/3">>

\* The six strings the consumer appends, lines 221-227.
LabelArgs ==
    <<"--label", CmdA, "/proc/self/fd/3", "--label", CmdB, "/proc/self/fd/4">>

\* A mutant of MainReturn: the consumer's status is passed on.
MainReturnStatus(status) == status

\* main's return value, line 244.
MainReturn(status) == 0

\* The argument list exec reads from argv: the strings up to the first slot
\* that is not a string, and what that slot is.
ExecList(x) ==
    LET stop == {n \in DOMAIN x.argv : x.argv[n].k # "str"}
        n0   == IF stop = {} THEN x.capacity ELSE Min(stop)
    IN  [args |-> [n \in 1..n0 |-> x.argv[n - 1].s],
         term |-> IF stop = {} THEN "none" ELSE x.argv[n0].k]

NoExec == [prog |-> "", args |-> <<>>, term |-> "none"]

\* The ways a call may be made to fail, given those it has: none once
\* MaxFaults calls have failed.
Modes(S) == IF faults < MaxFaults THEN S \cup {"none"} ELSE {"none"}

Fault(fail) == faults' = IF fail = "none" THEN faults ELSE faults + 1

\* The step l of process q succeeded: q goes on to next with table tab.
Step(q, l, next, tab) ==
    /\ pc' = [pc EXCEPT ![q] = next]
    /\ did' = [did EXCEPT ![q] = @ \cup {l}]
    /\ fds' = [fds EXCEPT ![q] = tab]
    /\ UNCHANGED <<argvIn, initTab, st, code, diag, bad, argvars, iovars>>

\* The step l of process q failed and the failure was not looked at.
Ignore(q, l, next) ==
    /\ pc' = [pc EXCEPT ![q] = next]
    /\ did' = [did EXCEPT ![q] = @ \cup {l}]
    /\ bad' = [bad EXCEPT ![q] = @ \cup {l}]
    /\ UNCHANGED <<argvIn, initTab, fds, st, code, diag, argvars, iovars>>

\* Process q ends at step l with exit status c and diagnostic msg; the
\* kernel closes its descriptors.  failed: whether a call of l failed.
Exit(q, l, c, msg, failed) ==
    /\ st' = [st EXCEPT ![q] = "exited"]
    /\ code' = [code EXCEPT ![q] = c]
    /\ diag' = [diag EXCEPT ![q] = msg]
    /\ fds' = [fds EXCEPT ![q] = NoTable]
    /\ did' = [did EXCEPT ![q] = @ \cup {l}]
    /\ bad' = [bad EXCEPT ![q] = IF failed THEN @ \cup {l} ELSE @]
    /\ UNCHANGED <<argvIn, initTab, pc, argvars, iovars>>

\* A mutant of Err: warn(3) instead of err(3), the process goes on.
Warn(q, l, msg) == Ignore(q, l, After(q, l))

\* A mutant of Err: the failed call is tried again.
Retry(q, l, msg) == Ignore(q, l, l)

\* err(1, msg).
Err(q, l, msg) == Exit(q, l, 1, msg, TRUE)

At(q, l) == st[q] = "running" /\ pc[q] = l

\* args_add(&a, s) as step l of process q.
AddArg(q, l, s, next) ==
    \E fail \in Modes(IF GrowCond(a[q]) THEN {"realloc", "malloc"} ELSE {"malloc"}) :
       LET r == ArgsAdd(a[q], "static", s, fail)
       IN  /\ Fault(fail)
           /\ IF r.res = "ok"
              THEN Step(q, l, next, fds[q]) /\ a' = [a EXCEPT ![q] = r]
              ELSE Err(q, l, r.res) /\ UNCHANGED a

(***************************************************************************)
(* main in the parent.                                                     *)
(***************************************************************************)
\* Line 150: args_init(&a, 2).
PArgsInit ==
    /\ At("parent", "args_init")
    /\ \E fail \in Modes({"calloc"}) :
          LET r == ArgsInit(2, fail)
          IN  /\ Fault(fail)
              /\ IF r.res = "ok"
                 THEN /\ Step("parent", "args_init", "add_diff", fds["parent"])
                      /\ a' = [a EXCEPT !["parent"] = r]
                 ELSE Err("parent", "args_init", r.res) /\ UNCHANGED a
    /\ UNCHANGED <<p, pa, pb, i, wstatus, execArgv, origs>>

\* Line 151: args_add(&a, DIFF_CMD).
PAddDiff ==
    /\ At("parent", "add_diff")
    /\ AddArg("parent", "add_diff", DIFF_CMD, "check")
    /\ UNCHANGED <<p, pa, pb, i, wstatus, execArgv, origs>>

\* Lines 153-165: the usage exit, or the choice between -u and the loop.
PCheck ==
    /\ At("parent", "check")
    /\ IF UsageCond
       THEN Exit("parent", "check", 2, "usage", FALSE) /\ UNCHANGED i
       ELSE IF argc = 3
       THEN Step("parent", "check", "add_u", fds["parent"]) /\ UNCHANGED i
       ELSE Step("parent", "check", "flags", fds["parent"]) /\ i' = 1
    /\ UNCHANGED <<faults, a, p, pa, pb, wstatus, execArgv, origs>>

\* Line 160: args_add(&a, "-u").
PAddU ==
    /\ At("parent", "add_u")
    /\ AddArg("parent", "add_u", "-u", "pipeA")
    /\ UNCHANGED <<p, pa, pb, i, wstatus, execArgv, origs>>

\* Lines 163-164: one turn of the loop, or its end.
PFlags ==
    /\ At("parent", "flags")
    /\ IF FlagLoopCond(i)
       THEN /\ AddArg("parent", "flags", Argv(i), "flags")
            /\ i' = IF st'["parent"] = "running" THEN i + 1 ELSE i
       ELSE /\ Step("parent", "flags", "pipeA", fds["parent"])
            /\ UNCHANGED <<a, i, faults>>
    /\ UNCHANGED <<p, pa, pb, wstatus, execArgv, origs>>

\* Lines 178 and 185: pipe(p).
PPipe(l, name) ==
    /\ At("parent", l)
    /\ \E fail \in Modes({"pipe"}) :
          LET pr == PipeFds(fds["parent"])
          IN  /\ Fault(fail)
              /\ IF fail = "none" /\ pr # NoPair
                 THEN /\ Step("parent", l, After("parent", l),
                              PipeOpen(fds["parent"], pr, name))
                      /\ p' = pr
                      /\ origs' = origs \cup {pr.r, pr.w}
                 ELSE Err("parent", l, "pipe2") /\ UNCHANGED <<p, origs>>
    /\ UNCHANGED <<a, pa, pb, i, wstatus, execArgv>>

\* The descriptor a dup step duplicates.
DupSource(l) == IF l \in {"dupA0", "dupB0"} THEN p.r ELSE p.w

\* Lines 180, 181, 187, 188: xdup_ge(p[..], DIFF_MAXFD + 1).
PDup(l) ==
    /\ At("parent", l)
    /\ \E fail \in Modes({"fcntl"}) :
          LET n == XdupGe(fds["parent"], DupSource(l), DIFF_MAXFD + 1)
          IN  /\ Fault(fail)
              /\ IF fail = "none" /\ n # -1
                 THEN /\ Step("parent", l, After("parent", l),
                              XdupTab(fds["parent"], DupSource(l), n))
                      /\ pa' = IF l = "dupA0" THEN [pa EXCEPT !.r = n]
                               ELSE IF l = "dupA1" THEN [pa EXCEPT !.w = n] ELSE pa
                      /\ pb' = IF l = "dupB0" THEN [pb EXCEPT !.r = n]
                               ELSE IF l = "dupB1" THEN [pb EXCEPT !.w = n] ELSE pb
                 ELSE Err("parent", l, "fcntl F_DUPFD") /\ UNCHANGED <<pa, pb>>
    /\ UNCHANGED <<a, p, i, wstatus, execArgv, origs>>

\* A mutant of CloseTarget: the parent keeps pipe A's write end.
CloseTargetKeep(l) ==
    IF l \in {"closeA0", "closeB0"} THEN p.r
    ELSE IF l \in {"closeA1", "closeB1"} THEN p.w
    ELSE IF l = "closePa0" THEN pa.r
    ELSE IF l = "closePa1" THEN -1
    ELSE IF l = "closePb0" THEN pb.r ELSE pb.w

\* A mutant of CloseTarget: close(p[0]) twice instead of close(p[0]) and
\* close(p[1]).
CloseTargetTwice(l) ==
    IF l \in {"closeA0", "closeB0", "closeA1", "closeB1"} THEN p.r
    ELSE IF l = "closePa0" THEN pa.r
    ELSE IF l = "closePa1" THEN pa.w
    ELSE IF l = "closePb0" THEN pb.r ELSE pb.w

\* The descriptor a close step of the parent closes: lines 182, 183, 189,
\* 190 and 234-237.
CloseTarget(l) ==
    IF l \in {"closeA0", "closeB0"} THEN p.r
    ELSE IF l \in {"closeA1", "closeB1"} THEN p.w
    ELSE IF l = "closePa0" THEN pa.r
    ELSE IF l = "closePa1" THEN pa.w
    ELSE IF l = "closePb0" THEN pb.r ELSE pb.w

CloseLabels ==
    {"closeA0", "closeA1", "closeB0", "closeB1",
     "closePa0", "closePa1", "closePb0", "closePb1"}

PClose(l) ==
    /\ At("parent", l)
    /\ Step("parent", l, After("parent", l), Close(fds["parent"], CloseTarget(l)))
    /\ UNCHANGED <<faults, a, p, pa, pb, i, wstatus, execArgv, origs>>

\* A mutant of ForkChild: every fork runs producer A's branch.
ForkChildSame(l) == "ca"

\* The child a fork step creates.
ForkChild(l) == IF l = "forkA" THEN "ca" ELSE IF l = "forkB" THEN "cb" ELSE "cdiff"

\* Lines 192, 200, 208: fork().  The child starts with a copy of the
\* parent's descriptor table and memory.
PFork(l) ==
    /\ At("parent", l)
    /\ \E fail \in Modes({"fork"}) :
          /\ Fault(fail)
          /\ IF fail = "none"
             THEN LET c == ForkChild(l)
                  IN  /\ pc' = [pc EXCEPT !["parent"] = After("parent", l),
                                          ![c] = SeqOf(c)[1]]
                      /\ st' = [st EXCEPT ![c] = "running"]
                      /\ fds' = [fds EXCEPT ![c] = fds["parent"]]
                      /\ a' = [a EXCEPT ![c] = a["parent"]]
                      /\ did' = [did EXCEPT !["parent"] = @ \cup {l}]
                      /\ UNCHANGED <<argvIn, initTab, code, diag, bad, argvars, iovars>>
             ELSE Err("parent", l, "fork") /\ UNCHANGED a
    /\ UNCHANGED <<p, pa, pb, i, wstatus, execArgv, origs>>

\* A mutant of WaitFor: the parent waits for producer A.
WaitForA == "ca"

\* The child whose pid is handed to waitpid, line 242.
WaitFor == "cdiff"

\* Line 242: waitpid(cdiff, &status, 0) returns once the consumer has
\* terminated, or fails; its result is not looked at.
PWait ==
    /\ At("parent", "wait")
    /\ \E fail \in Modes({"waitpid"}) :
          /\ Fault(fail)
          /\ IF fail = "none"
             THEN /\ st[WaitFor] = "exited"
                  /\ Step("parent", "wait", "ret", fds["parent"])
                  /\ wstatus' = code[WaitFor]
             ELSE /\ Ignore("parent", "wait", "ret")
                  /\ UNCHANGED wstatus
    /\ UNCHANGED <<a, p, pa, pb, i, execArgv, origs>>

\* Line 244: return 0.
PRet ==
    /\ At("parent", "ret")
    /\ Exit("parent", "ret", MainReturn(wstatus), "", FALSE)
    /\ UNCHANGED <<faults, a, p, pa, pb, i, wstatus, execArgv, origs>>

(***************************************************************************)
(* The children.                                                           *)
(***************************************************************************)
\* producer()'s pout and cmd, lines 196 and 204.
Pout(c) == IF c = "ca" THEN pa.w ELSE pb.w

Cmd(c) == IF c = "ca" THEN CmdA ELSE CmdB

\* Line 134: dup2(pout, 1), checked.
CDup2(c) ==
    /\ At(c, "dup2")
    /\ \E fail \in Modes({"dup2"}) :
          /\ Fault(fail)
          /\ IF fail = "none" /\ Dup2Valid(fds[c], Pout(c), 1)
             THEN Step(c, "dup2", "clr", Dup2(fds[c], Pout(c), 1))
             ELSE Err(c, "dup2", "dup2")
    /\ UNCHANGED <<a, p, pa, pb, i, wstatus, execArgv, origs>>

\* The descriptors a consumer dup2 step binds.
BindFrom(l) == IF l = "dup3" THEN pa.r ELSE pb.r

BindTo(l) == IF l = "dup3" THEN 3 ELSE 4

\* Lines 212, 213: dup2(pa[0], 3); dup2(pb[0], 4).  The result is not
\* looked at: after a failure the consumer goes on.
DBind(l) ==
    /\ At("cdiff", l)
    /\ \E fail \in Modes({"dup2"}) :
          /\ Fault(fail)
          /\ IF fail = "none" /\ Dup2Valid(fds["cdiff"], BindFrom(l), BindTo(l))
             THEN Step("cdiff", l, After("cdiff", l),
                       Dup2(fds["cdiff"], BindFrom(l), BindTo(l)))
             ELSE Ignore("cdiff", l, After("cdiff", l))
    /\ UNCHANGED <<a, p, pa, pb, i, wstatus, execArgv, origs>>

\* The descriptor a clear_cloexec step works on: lines 136, 214, 215.
ClrFd(c, l) == IF c # "cdiff" THEN 1 ELSE IF l = "clr3" THEN 3 ELSE 4

ClrLabels(c) == IF c = "cdiff" THEN {"clr3", "clr4"} ELSE {"clr"}

CClr(c, l) ==
    /\ At(c, l)
    /\ \E fail \in Modes({"get", "set"}) :
          LET r == ClearCloexec(fds[c], ClrFd(c, l), fail)
          IN  /\ Fault(fail)
              /\ IF r.res = "ok"
                 THEN Step(c, l, After(c, l), r.tab)
                 ELSE Err(c, l, r.res)
    /\ UNCHANGED <<a, p, pa, pb, i, wstatus, execArgv, origs>>

\* Lines 137, 216: closed_reader(0).
CEof(c) ==
    /\ At(c, "eof")
    /\ \E fail \in Modes({"pipe", "dup2"}) :
          LET r == ClosedReader(fds[c], 0, c, fail)
          IN  /\ Fault(fail)
              /\ IF r.res = "ok"
                 THEN Step(c, "eof", After(c, "eof"), r.tab)
                 ELSE Err(c, "eof", r.res)
    /\ UNCHANGED <<a, p, pa, pb, i, wstatus, execArgv, origs>>

AddLabels == {"add1", "add2", "add3", "add4", "add5", "add6"}

\* Lines 221-227: the consumer's six args_add calls, one per step.
DAdd(l) ==
    /\ At("cdiff", l)
    /\ AddArg("cdiff", l, LabelArgs[Pos("cdiff", l) - 5], After("cdiff", l))
    /\ UNCHANGED <<p, pa, pb, i, wstatus, execArgv, origs>>

\* What a child asks exec to run: line 138 (execl) and line 229 (execvp).
ExecOf(c) ==
    IF c = "cdiff"
    THEN [prog |-> DIFF_CMD] @@ ExecList(a[c])
    ELSE [prog |-> DEFAULT_SHELL,
          args |-> <<DEFAULT_SHELL, "-c", Cmd(c)>>, term |-> "null"]

\* Lines 138-139 and 229-231: exec, then err(1, "exec") if it returned.
CExec(c) ==
    /\ At(c, "exec")
    /\ \E fail \in Modes({"exec"}) :
          /\ Fault(fail)
          /\ IF fail = "none"
             THEN /\ Step(c, "exec", "run", ExecClose(fds[c]))
                  /\ execArgv' = [execArgv EXCEPT ![c] = ExecOf(c)]
             ELSE Err(c, "exec", "exec") /\ UNCHANGED execArgv
    /\ UNCHANGED <<a, p, pa, pb, i, wstatus, origs>>

\* Whether process q holds an open write end of pipe name.
HoldsWrite(q, name) ==
    \E n \in FdNums : fds[q][n].pipe = name /\ fds[q][n].end = "w"

\* Whether a read of descriptor n in process q can return end-of-stream:
\* no process holds a write end of the pipe it reads from.
AtEof(q, n) ==
    fds[q][n].end = "r" => \A r \in Procs : ~HoldsWrite(r, fds[q][n].pipe)

\* The shell of a producer terminates, once its command has written all
\* its output.
ShExit(c) ==
    /\ At(c, "run")
    /\ left[c] = 0
    /\ Exit(c, "run", 0, "", FALSE)
    /\ UNCHANGED <<faults, a, p, pa, pb, i, wstatus, execArgv, origs>>

\* diff terminates: with 0 or 1 once it has read both inputs to the end,
\* with 2 (trouble) at any time.
DiffExit ==
    /\ At("cdiff", "run")
    /\ \E c \in {0, 1, 2} :
          /\ c # 2 => AtEof("cdiff", 3) /\ AtEof("cdiff", 4)
          /\ Exit("cdiff", "run", c, "", FALSE)
    /\ UNCHANGED <<faults, a, p, pa, pb, i, wstatus, execArgv, origs>>

(***************************************************************************)
(* Specifications.                                                         *)
(***************************************************************************)
\* The table of a caller whose open descriptors are S.
TableOf(S) == [n \in FdNums |-> IF n \in S THEN ExtFd ELSE ClosedFd]

ArgIdle ==
    /\ av = NoArgs
    /\ cbuf = "x"
    /\ pushed = <<>>

Pipes == {"A", "B"}

\* No data: the commands write nothing.
IoIdle ==
    /\ left = [c \in Producers |-> 0]
    /\ buf = [x \in Pipes |-> 0]
    /\ cur = 0
    /\ seen = {}

MainInit(lines, tables, nfaults) ==
    /\ argvIn \in lines
    /\ initTab \in tables
    /\ faults = nfaults
    /\ fds = [q \in Procs |-> IF q = "parent" THEN initTab ELSE NoTable]
    /\ pc = [q \in Procs |-> SeqOf(q)[1]]
    /\ st = [q \in Procs |-> IF q = "parent" THEN "running" ELSE "unborn"]
    /\ code = [q \in Procs |-> -1]
    /\ diag = [q \in Procs |-> ""]
    /\ a = [q \in Procs |-> NoArgs]
    /\ p = NoPair
    /\ pa = NoPair
    /\ pb = NoPair
    /\ i = 0
    /\ wstatus = -1
    /\ execArgv = [q \in Procs |-> NoExec]
    /\ origs = {}
    /\ did = [q \in Procs |-> {}]
    /\ bad = [q \in Procs |-> {}]

\* Command lines for the descriptor and process claims: none, one or two
\* commands, and one flag before two commands.
FewLines ==
    {<<"ediff">>, <<"ediff", "ls">>, <<"ediff", "ls", "ps">>,
     <<"ediff", "-w", "ls", "ps">>}

TwoCommands == {<<"ediff", "ls", "ps">>}

AllTables == {TableOf(S) : S \in SUBSET (0..MaxInitFd)}

\* The table of a caller with standard input, output and error open.
StdTables == {TableOf({0, 1, 2})}

\* Every descriptor table with the plain command line, and every command
\* line of FewLines with the standard table.
Init ==
    /\ \/ MainInit(TwoCommands, AllTables, 0)
       \/ MainInit(FewLines, StdTables, 0)
    /\ ArgIdle
    /\ IoIdle

ParentStep ==
    \/ PArgsInit
    \/ PAddDiff
    \/ PCheck
    \/ PAddU
    \/ PFlags
    \/ PPipe("pipeA", "A")
    \/ PPipe("pipeB", "B")
    \/ \E l \in {"dupA0", "dupA1", "dupB0", "dupB1"} : PDup(l)
    \/ \E l \in CloseLabels : PClose(l)
    \/ \E l \in {"forkA", "forkB", "forkD"} : PFork(l)
    \/ PWait
    \/ PRet

\* A child's steps up to and including its exec.
ChildSetup(c) ==
    \/ c \in Producers /\ CDup2(c)
    \/ c = "cdiff" /\ \E l \in {"dup3", "dup4"} : DBind(l)
    \/ \E l \in ClrLabels(c) : CClr(c, l)
    \/ CEof(c)
    \/ c = "cdiff" /\ \E l \in AddLabels : DAdd(l)
    \/ CExec(c)

Next ==
    \/ ParentStep
    \/ \E c \in Children : ChildSetup(c)
    \/ \E c \in Producers : ShExit(c)
    \/ DiffExit

Spec == Init /\ [][Next]_vars

\* A step of the parent in which no call fails for no reason.
ParentProgress == ParentStep /\ faults' = faults

\* A command line with one flag before the two commands.
FlagLines == {<<"ediff", "-w", "ls", "ps">>}

\* The fair specification starts from the standard table: the plain command
\* line with calls that may fail, and the command line with a flag with no
\* call failing for no reason.
FairInit ==
    /\ \/ MainInit(TwoCommands, StdTables, 0)
       \/ MainInit(FlagLines, StdTables, MaxFaults)
    /\ ArgIdle
    /\ IoIdle

\* The scheduler runs every process that can take a step: the parent goes
\* on as long as a step of it that does not fail is possible, and so does
\* each child up to its exec.
FairSpec ==
    /\ FairInit
    /\ [][Next]_vars
    /\ WF_vars(ParentProgress)
    /\ \A c \in Children : WF_vars(ChildSetup(c) /\ faults' = faults)

\* The words of a command line.
Tokens == {"-w", "ls"}

\* Every command line of at most MaxFlags + 2 words after the program name.
AllLines ==
    {<<"ediff">> \o s : s \in UNION {[1..n -> Tokens] : n \in 0..(MaxFlags + 2)}}

\* Every command line, the standard table, and no call failing for no
\* reason.
CmdInit == MainInit(AllLines, StdTables, MaxFaults) /\ ArgIdle /\ IoIdle

CmdSpec == CmdInit /\ [][Next]_vars

\* The ArgVector on its own, beside a program that has not started.
ArgNext ==
    \/ AAdd /\ UNCHANGED <<mainvars, iovars>>
    \/ AReuse /\ UNCHANGED <<mainvars, iovars>>

ArgSpecInit == ArgInit /\ MainInit(TwoCommands, StdTables, 0) /\ IoIdle

ArgSpec == ArgSpecInit /\ [][ArgNext]_vars

(***************************************************************************)
(* Data flow: the shells write their commands' output to descriptor 1,     *)
(* diff reads descriptors 3 and 4.  A write to a full pipe and a read from *)
(* an empty pipe that still has a writer block.                            *)
(***************************************************************************)
\* Whether process q holds an open read end of pipe name.
HoldsRead(q, name) ==
    \E n \in FdNums : fds[q][n].pipe = name /\ fds[q][n].end = "r"

\* Whether descriptor n of process q is an end of pipe A or of pipe B.
OnPipe(q, n, end) == fds[q][n].pipe \in Pipes /\ fds[q][n].end = end

\* The command of producer c writes one byte to descriptor 1, the
\* descriptor the shell got from line 134: into the pipe when it has room,
\* and when no process holds a read end the writer is killed by SIGPIPE.
ShWrite(c) ==
    /\ At(c, "run")
    /\ left[c] > 0
    /\ IF OnPipe(c, 1, "w")
       THEN LET x == fds[c][1].pipe
            IN  IF \A q \in Procs : ~HoldsRead(q, x)
                THEN Exit(c, "run", 128 + 13, "", FALSE)
                ELSE /\ buf[x] < PipeCap
                     /\ buf' = [buf EXCEPT ![x] = @ + 1]
                     /\ left' = [left EXCEPT ![c] = @ - 1]
                     /\ UNCHANGED <<argvIn, initTab, fds, pc, st, code, diag,
                                    did, bad, argvars, cur, seen>>
       ELSE /\ left' = [left EXCEPT ![c] = @ - 1]
            /\ UNCHANGED <<argvIn, initTab, fds, pc, st, code, diag,
                           did, bad, argvars, buf, cur, seen>>
    /\ UNCHANGED <<faults, a, p, pa, pb, i, wstatus, execArgv, origs>>

\* diff calls read() on one of the descriptors named by its arguments
\* (/proc/self/fd/3 and /proc/self/fd/4, lines 223 and 227) that it has not
\* yet read to the end, in an order of its own.
DiffPick ==
    /\ At("cdiff", "run")
    /\ cur = 0
    /\ \E n \in {3, 4} \ seen : cur' = n
    /\ UNCHANGED <<mainvars, argvars, left, buf, seen>>

\* The read on a read end of pipe A or B returns: with a byte when the pipe
\* holds one, with end-of-stream when it is empty and no process holds a
\* write end.
DiffRead ==
    /\ At("cdiff", "run")
    /\ cur # 0
    /\ OnPipe("cdiff", cur, "r")
    /\ LET x == fds["cdiff"][cur].pipe
       IN  IF buf[x] > 0
           THEN buf' = [buf EXCEPT ![x] = @ - 1] /\ UNCHANGED seen
           ELSE /\ \A q \in Procs : ~HoldsWrite(q, x)
                /\ seen' = seen \cup {cur}
                /\ UNCHANGED buf
    /\ cur' = 0
    /\ UNCHANGED <<mainvars, argvars, left>>

\* The read on a descriptor that is no end of pipe A or B (a stream of the
\* caller's) returns when and what that stream decides: data, or the end.
DiffReadOther ==
    /\ At("cdiff", "run")
    /\ cur # 0
    /\ ~OnPipe("cdiff", cur, "r")
    /\ \E end \in BOOLEAN : seen' = IF end THEN seen \cup {cur} ELSE seen
    /\ cur' = 0
    /\ UNCHANGED <<mainvars, argvars, left, buf>>

\* diff has read both inputs to the end and terminates: 0 for no
\* differences, 1 for differences.
DiffFinish ==
    /\ At("cdiff", "run")
    /\ seen = {3, 4}
    /\ \E c \in {0, 1} : Exit("cdiff", "run", c, "", FALSE)
    /\ UNCHANGED <<faults, a, p, pa, pb, i, wstatus, execArgv, origs>>

\* diff gives up with status 2 (trouble) at any time.
DiffTrouble ==
    /\ At("cdiff", "run")
    /\ Exit("cdiff", "run", 2, "", FALSE)
    /\ UNCHANGED <<faults, a, p, pa, pb, i, wstatus, execArgv, origs>>

\* The table of a caller that also hands over descriptors 3 and 4.
FullTables == {TableOf(0..DIFF_MAXFD)}

\* Each command has MaxOut bytes to write and the pipes are empty: the
\* plain command line from a caller with descriptors 0 to 4 open and calls
\* that may fail, and the command line with a flag from the standard table
\* with no call failing for no reason.
IoInit ==
    /\ \/ MainInit(TwoCommands, FullTables, 0)
       \/ MainInit(FlagLines, StdTables, MaxFaults)
    /\ ArgIdle
    /\ left = [c \in Producers |-> MaxOut]
    /\ buf = [x \in Pipes |-> 0]
    /\ cur = 0
    /\ seen = {}

IoNext ==
    \/ ParentStep
    \/ \E c \in Children : ChildSetup(c)
    \/ \E c \in Producers : ShWrite(c)
    \/ \E c \in Producers : ShExit(c)
    \/ DiffPick
    \/ DiffRead
    \/ DiffReadOther
    \/ DiffFinish
    \/ DiffTrouble

\* Fair scheduling of the four processes; a command that can write does,
\* a shell whose command is done exits, diff goes on reading the pipes and
\* terminates once it has read both inputs to the end.  Nothing is assumed
\* of the caller's streams, nor that a call fails or that diff gives up.
IoSpec ==
    /\ IoInit
    /\ [][IoNext]_vars
    /\ WF_vars(ParentProgress)
    /\ \A c \in Children : WF_vars(ChildSetup(c) /\ faults' = faults)
    /\ \A c \in Producers : WF_vars(ShWrite(c)) /\ WF_vars(ShExit(c))
    /\ WF_vars(DiffPick)
    /\ WF_vars(DiffRead)
    /\ WF_vars(DiffFinish)

(***************************************************************************)
(* Properties.                                                             *)
(***************************************************************************)
\* Process q's image has been replaced by a successful exec.
Execd(q) == "exec" \in did[q] \ bad[q]

\* Step m comes after step l in q's program.
Later(q, l, m) == Pos(q, m) > Pos(q, l)

ReadEnd(name, flag) == [pipe |-> name, end |-> "r", cx |-> flag]

WriteEnd(name, flag) == [pipe |-> name, end |-> "w", cx |-> flag]

Kept == {pa.r, pa.w, pb.r, pb.w}

\* C1: once the parent has created and re-homed both pipes, whatever
\* descriptors the caller handed over, pa[0], pa[1], pb[0] and pb[1] are
\* four different numbers, each greater than 4, the numbers pipe() returned
\* are closed in the parent, and until the parent closes them the four
\* refer to the two ends of pipe A and of pipe B with close-on-exec set.
C1_DescriptorFloor ==
    "closeB1" \in did["parent"] =>
       /\ Cardinality(Kept) = 4
       /\ \A n \in Kept : n > 4
       /\ \A n \in origs : ~IsOpen(fds["parent"], n)
       /\ At("parent", "forkA") \/ At("parent", "forkB") \/ At("parent", "forkD") =>
             /\ fds["parent"][pa.r] = ReadEnd("A", TRUE)
             /\ fds["parent"][pa.w] = WriteEnd("A", TRUE)
             /\ fds["parent"][pb.r] = ReadEnd("B", TRUE)
             /\ fds["parent"][pb.w] = WriteEnd("B", TRUE)

\* C1's case: both pipes are re-homed in a process that was started with
\* descriptors 3 and 4 closed, so that pipe() itself returned 3 or 4.
C1_Witness ==
    /\ At("parent", "forkA")
    /\ origs \cap {3, 4} # {}

\* C2, as claimed: when the consumer has exec'd diff, descriptor 3 is the
\* read end of pipe A and descriptor 4 the read end of pipe B, both
\* inherited, and each producer that has exec'd its shell writes its
\* command's output to its own pipe.
C2_Bound34 ==
    /\ Execd("cdiff") /\ st["cdiff"] = "running" =>
          /\ fds["cdiff"][3] = ReadEnd("A", FALSE)
          /\ fds["cdiff"][4] = ReadEnd("B", FALSE)
    /\ Execd("ca") /\ st["ca"] = "running" =>
          /\ fds["ca"][1] = WriteEnd("A", FALSE)
          /\ execArgv["ca"].args[3] = argvIn[argc - 1]
    /\ Execd("cb") /\ st["cb"] = "running" =>
          /\ fds["cb"][1] = WriteEnd("B", FALSE)
          /\ execArgv["cb"].args[3] = argvIn[argc]

\* C3, as claimed: a run with fewer than three arguments ends with the
\* usage message and exit status 2.
C3_UsageAlways ==
    argc < 3 /\ st["parent"] = "exited" =>
       code["parent"] = 2 /\ diag["parent"] = "usage"

\* C3, amended: in a run with fewer than three arguments the parent makes
\* no pipe, duplicates and closes no descriptor and forks no child; it ends
\* with the usage message and exit status 2, unless an allocation of
\* args_init or args_add failed before the test, and then with that
\* diagnostic and exit status 1.
C3_Usage ==
    argc < 3 =>
       /\ did["parent"] \subseteq {"args_init", "add_diff", "check"}
       /\ origs = {}
       /\ \A c \in Children : st[c] = "unborn"
       /\ st["parent"] = "running" => fds["parent"] = initTab
       /\ st["parent"] = "exited" =>
             \/ /\ bad["parent"] = {}
                /\ code["parent"] = 2
                /\ diag["parent"] = "usage"
             \/ /\ bad["parent"] # {}
                /\ code["parent"] = 1
                /\ diag["parent"] \in {"calloc", "malloc"}

\* C3's case: a run with one positional argument has ended with the usage
\* message.
C3_Witness ==
    /\ argc = 2
    /\ st["parent"] = "exited"
    /\ code["parent"] = 2
    /\ diag["parent"] = "usage"

\* The number of arguments between the program name and the two commands.
NFlags == argc - 3

\* C4: the argument list handed to diff is "diff", then the caller's N
\* arguments in their order (or "-u" when N = 0), then six more entries.
C4_Forwarding ==
    Execd("cdiff") =>
       LET args == execArgv["cdiff"].args
           lead == IF NFlags = 0 THEN <<"-u">> ELSE SubSeq(argvIn, 2, NFlags + 1)
       IN  /\ execArgv["cdiff"].prog = "diff"
           /\ Len(args) = 1 + Len(lead) + 6
           /\ SubSeq(args, 1, 1 + Len(lead)) = <<"diff">> \o lead

\* C4's case: diff was exec'd with two different caller flags.
C4_Witness ==
    /\ Execd("cdiff")
    /\ NFlags = 2
    /\ argvIn[2] # argvIn[3]

\* C5: the argument list the consumer execs ends with --label, command A,
\* /proc/self/fd/3, --label, command B, /proc/self/fd/4, then NULL.
C5_Labels ==
    Execd("cdiff") =>
       LET args == execArgv["cdiff"].args
       IN  /\ Len(args) >= 6
           /\ SubSeq(args, Len(args) - 5, Len(args)) =
                 <<"--label", argvIn[argc - 1], "/proc/self/fd/3",
                   "--label", argvIn[argc], "/proc/self/fd/4">>
           /\ execArgv["cdiff"].term = "null"

\* C5's case: diff was exec'd for two different commands.
C5_Witness ==
    /\ Execd("cdiff")
    /\ argvIn[argc - 1] # argvIn[argc]

\* C6: the parent's exit status is 0, 1 or 2; it is 0 whenever there are
\* at least two positional arguments and no call of the parent failed,
\* whatever the consumer's status; 2 only on the usage path; 1 only after
\* a call of the parent failed, with a diagnostic.
C6_ExitCode ==
    st["parent"] = "exited" =>
       /\ code["parent"] \in {0, 1, 2}
       /\ argc >= 3 /\ bad["parent"] = {} => code["parent"] = 0
       /\ code["parent"] = 2 => argc < 3 /\ diag["parent"] = "usage"
       /\ code["parent"] = 1 => bad["parent"] # {} /\ diag["parent"] # ""

\* C6's case: the parent has returned after a consumer that ended with a
\* status other than 0.
C6_Witness ==
    /\ st["parent"] = "exited"
    /\ bad["parent"] = {}
    /\ wstatus \in {1, 2}
    /\ code["parent"] = 0

\* A process has ended with exit status 1 before its image was replaced.
Aborted(q) == st[q] = "exited" /\ code[q] = 1 /\ ~Execd(q)

\* The steps whose result the code does not look at: waitpid in the parent
\* (line 242) and the two dup2 calls of the consumer (lines 212, 213).
Unchecked == {"wait", "dup3", "dup4"}

\* The children the parent forks at or after step l.
ForkedFrom(l) ==
    {ForkChild(m) : m \in {f \in {"forkA", "forkB", "forkD"} : ~Later("parent", f, l)}}

\* C7, as claimed: once a process has aborted before the consumer's image
\* was replaced, no child of the run is still running.
C7_NoChildLeft ==
    \A q \in Procs :
       Aborted(q) /\ ~Execd("cdiff") => \A c \in Children : st[c] # "running"

\* C7, amended: a process in which a checked call failed has exited with
\* status 1 at that step and has executed no later step; when it is the
\* parent, no child it had yet to fork exists, and when it is the consumer,
\* diff was not exec'd.  (The children forked before are left alone.)
C7_AbortStopsProcess ==
    \A q \in Procs : \A l \in bad[q] \ Unchecked :
       /\ Aborted(q)
       /\ pc[q] = l
       /\ \A m \in did[q] : ~Later(q, l, m)
       /\ q = "parent" => \A c \in ForkedFrom(l) : st[c] = "unborn"
       /\ execArgv[q] = NoExec

\* C7's case: the second fork failed, the parent has exited, and the first
\* producer is still running.
C7_Witness ==
    /\ Aborted("parent")
    /\ pc["parent"] = "forkB"
    /\ st["ca"] = "running"
    /\ st["cb"] = "unborn"

\* C8, as claimed: a consumer in which a step failed has ended with a
\* nonzero status and a diagnostic at that step, has executed no later
\* step, and has not exec'd diff.
C8_ConsumerFatal ==
    \A l \in bad["cdiff"] :
       /\ st["cdiff"] = "exited"
       /\ code["cdiff"] # 0
       /\ diag["cdiff"] # ""
       /\ \A m \in did["cdiff"] : ~Later("cdiff", l, m)
       /\ ~Execd("cdiff")

\* Some process holds an open write end of pipe A or of pipe B.
WriterLeft == \E q \in Procs : HoldsWrite(q, "A") \/ HoldsWrite(q, "B")

\* All three forks and all three execs succeeded and both producers have
\* exited.
ProducersDone ==
    /\ \A c \in Children : Execd(c)
    /\ st["ca"] = "exited"
    /\ st["cb"] = "exited"

\* C9: under fair scheduling, once all three children have exec'd and both
\* producers have exited, eventually no process holds an open write end of
\* pipe A or of pipe B, so that reads of descriptors 3 and 4 in diff can
\* return end-of-stream.
C9_EndOfStream ==
    ProducersDone ~> (~WriterLeft /\ (st["cdiff"] = "running" =>
                                         AtEof("cdiff", 3) /\ AtEof("cdiff", 4)))

\* C9's case: both producers have exited while the parent still holds its
\* write ends and diff is running.
C9_Witness ==
    /\ ProducersDone
    /\ HoldsWrite("parent", "A")
    /\ HoldsWrite("parent", "B")
    /\ st["cdiff"] = "running"

\* What holds of the ArgVector between two calls.
ArgsBetweenCalls ==
    /\ av.res \notin {"assert", "overflow"}
    /\ av.res = "ok" =>
          /\ av.argc < av.capacity
          /\ DOMAIN av.argv = 0..(av.capacity - 1)
          /\ av.argv[av.argc] = NullSlot
          /\ av.argc = Len(pushed)
          /\ \A n \in 1..av.argc :
                av.argv[n - 1].k = "str" /\ av.argv[n - 1].s = pushed[n]

\* What holds of the capacity from one call to the next.
CapacityStep ==
    /\ av'.capacity \in {av.capacity, 2 * av.capacity}
    /\ av'.capacity = 2 * av.capacity => av.argc + 1 = av.capacity
    /\ av'.argc = av.argc + 1 /\ av.argc + 1 = av.capacity =>
          av'.capacity = 2 * av.capacity

\* C10: after args_init with any capacity > 0 and any args_add calls,
\* argc < capacity, argv[argc] is NULL, argv[0..argc) holds the pushed
\* strings in push order whatever the caller did to its buffer since, the
\* assertion of args_add never fails, and the capacity changes only by
\* doubling, exactly when argc + 1 = capacity at entry to a push.
C10_ArgVector == []ArgsBetweenCalls /\ [][CapacityStep]_vars

\* C10's case: three strings were pushed from one reused buffer into a
\* vector that started with capacity 1 and has doubled twice.
C10_Witness ==
    /\ av.res = "ok"
    /\ av.capacity = 4
    /\ Len(pushed) = 3
    /\ pushed[1] # pushed[2]
    /\ cbuf # pushed[3]

\* The fork of main that creates the child of each role.
RoleFork(c) == IF c = "ca" THEN "forkA" ELSE IF c = "cb" THEN "forkB" ELSE "forkD"

\* The steps of a sequence.
Labels(seq) == {seq[n] : n \in 1..Len(seq)}

\* What holds of the children in every state: a child exists exactly when
\* its own fork succeeded in the parent; it has executed steps of its own
\* branch only; after a failed exec it has exited with status 1 at the exec;
\* after a successful exec it executes nothing more of main.
OnePerRole ==
    \A c \in Children :
       /\ st[c] # "unborn" <=> RoleFork(c) \in did["parent"] \ bad["parent"]
       /\ did[c] \subseteq Labels(SeqOf(c))
       /\ did[c] \cap Labels(ParentSeq) = {}
       /\ "exec" \in bad[c] => st[c] = "exited" /\ code[c] = 1 /\ pc[c] = "exec"
       /\ Execd(c) => pc[c] = "run"

\* What holds of every step: a child is created in a step of the parent's
\* fork for its role, and a child that exists is never created again.
CreatedOnce ==
    \A c \in Children :
       /\ st[c] = "unborn" /\ st'[c] # "unborn" =>
             /\ At("parent", RoleFork(c))
             /\ st'[c] = "running"
             /\ \A d \in Children \ {c} : st'[d] = st[d]
       /\ st[c] # "unborn" =>
             /\ st'[c] # "unborn"
             /\ did[c] \subseteq did'[c]
             /\ st[c] = "exited" => st'[c] = "exited"

\* C11: at most one process per role is ever created, each by the parent's
\* fork for that role; no child executes a fork or a later step of the
\* parent, whether its exec succeeds or fails; when all three forks succeed
\* exactly the three children exist.
C11_OnePerRole == []OnePerRole /\ [][CreatedOnce]_vars

\* C11's case: all three children were forked and the exec of producer B
\* failed.
C11_Witness ==
    /\ \A c \in Children : st[c] # "unborn"
    /\ "exec" \in bad["cb"]
    /\ st["cb"] = "exited"

\* The parent is on the normal path: at least two positional arguments and
\* no call of the parent has failed.
NormalPath == argc >= 3 /\ bad["parent"] = {}

\* C12: on the normal path the parent is past its wait only when the
\* consumer has terminated, with the consumer's status in hand, and so it
\* does not exit before the consumer has; nothing is required of the
\* producers.
C12_Waiting ==
    NormalPath /\ "wait" \in did["parent"] =>
       /\ st["cdiff"] = "exited"
       /\ wstatus = code["cdiff"]

\* C12's case: the parent has exited on the normal path while a producer is
\* still running.
C12_Witness ==
    /\ NormalPath
    /\ st["parent"] = "exited"
    /\ code["parent"] = 0
    /\ st["ca"] = "running"

\* The argument list a command line determines.
ArgsFor(line) ==
    LET n == Len(line)
    IN  <<"diff">>
        \o (IF n = 3 THEN <<"-u">> ELSE SubSeq(line, 2, n - 2))
        \o <<"--label", line[n - 1], "/proc/self/fd/3",
             "--label", line[n], "/proc/self/fd/4">>

\* What the differencing program is handed: its argument list and the
\* streams behind descriptors 3 and 4.
DiffInput ==
    [args |-> execArgv["cdiff"].args,
     term |-> execArgv["cdiff"].term,
     in3  |-> <<fds["cdiff"][3].pipe, fds["cdiff"][3].end>>,
     in4  |-> <<fds["cdiff"][4].pipe, fds["cdiff"][4].end>>]

\* What the command line alone determines of it.
DiffInputFor(line) ==
    [args |-> ArgsFor(line), term |-> "null", in3 |-> <<"A", "r">>, in4 |-> <<"B", "r">>]

\* C13, as claimed: what diff is handed is determined by the command line
\* alone (so that any two runs with the same command line agree on it,
\* whatever the caller's descriptors, the numbers the pipes were given and
\* the interleaving): the argument list, pipe A on descriptor 3 and pipe B
\* on descriptor 4, where pipe A is written by the shell running the first
\* command, on its standard output, and pipe B by the one running the
\* second.
C13_Deterministic ==
    /\ Execd("cdiff") /\ st["cdiff"] = "running" => DiffInput = DiffInputFor(argvIn)
    /\ \A c \in Producers :
          Execd(c) /\ st[c] = "running" =>
             /\ execArgv[c].args = <<DEFAULT_SHELL, "-c", argvIn[IF c = "ca" THEN argc - 1 ELSE argc]>>
             /\ <<fds[c][1].pipe, fds[c][1].end>> = <<IF c = "ca" THEN "A" ELSE "B", "w">>

\* The descriptors a child means its new image to inherit.
Inherited(c) == IF c = "cdiff" THEN {3, 4} ELSE {1}

\* The descriptors of process q that refer to pipe A or pipe B.
OnPipes(q) == {n \in FdNums : fds[q][n].pipe \in {"A", "B"}}

\* C14: when a child is about to call exec, each descriptor it means to be
\* inherited (1 in a producer, 3 and 4 in the consumer) is open with
\* close-on-exec clear, and every other descriptor it holds on pipe A or
\* pipe B has close-on-exec set.  So after its exec a producer's only
\* descriptor on the two pipes is 1, the write end of its own pipe, and the
\* only descriptors diff can hold on them are 3 as the read end of pipe A
\* and 4 as the read end of pipe B: no write end.
C14_CloexecAtExec ==
    \A c \in Children :
       /\ At(c, "exec") =>
             /\ \A n \in Inherited(c) : IsOpen(fds[c], n) /\ ~fds[c][n].cx
             /\ \A n \in OnPipes(c) \ Inherited(c) : fds[c][n].cx
       /\ Execd(c) /\ st[c] = "running" =>
             IF c = "cdiff"
             THEN /\ OnPipes(c) \subseteq {3, 4}
                  /\ 3 \in OnPipes(c) => fds[c][3] = ReadEnd("A", FALSE)
                  /\ 4 \in OnPipes(c) => fds[c][4] = ReadEnd("B", FALSE)
             ELSE /\ OnPipes(c) = {1}
                  /\ fds[c][1] = WriteEnd(IF c = "ca" THEN "A" ELSE "B", FALSE)

\* C14's case: all three children have exec'd and are running, the consumer
\* with both read ends.
C14_Witness ==
    /\ \A c \in Children : Execd(c) /\ st[c] = "running"
    /\ OnPipes("cdiff") = {3, 4}

\* The steps that create and re-home the two pipes, lines 178-190.
PipeSteps ==
    {"pipeA", "dupA0", "dupA1", "closeA0", "closeA1",
     "pipeB", "dupB0", "dupB1", "closeB0", "closeB1"}

ForkSteps == {"forkA", "forkB", "forkD"}

\* The closes of lines 234-237.
FinalCloses == {"closePa0", "closePa1", "closePb0", "closePb1"}

\* C15: the parent forks only after both pipes are created and re-homed,
\* and closes the first of pa[0], pa[1], pb[0], pb[1] only after all three
\* forks have succeeded, in the order producer A, producer B, consumer; a
\* producer that has just been forked holds the write end of its pipe as
\* pa[1] or pb[1], and the consumer holds both read ends as pa[0] and pb[0].
C15_ForkBeforeClose ==
    /\ did["parent"] \cap ForkSteps # {} =>
          PipeSteps \subseteq did["parent"] \ bad["parent"]
    /\ did["parent"] \cap FinalCloses # {} =>
          ForkSteps \subseteq did["parent"] \ bad["parent"]
    /\ st["cb"] # "unborn" => st["ca"] # "unborn"
    /\ st["cdiff"] # "unborn" => st["cb"] # "unborn"
    /\ did["parent"] \cap FinalCloses = {} /\ "closeB1" \in did["parent"]
       /\ st["parent"] = "running" =>
          /\ fds["parent"][pa.r] = ReadEnd("A", TRUE)
          /\ fds["parent"][pa.w] = WriteEnd("A", TRUE)
          /\ fds["parent"][pb.r] = ReadEnd("B", TRUE)
          /\ fds["parent"][pb.w] = WriteEnd("B", TRUE)
    /\ At("ca", "dup2") => fds["ca"][pa.w] = WriteEnd("A", TRUE)
    /\ At("cb", "dup2") => fds["cb"][pb.w] = WriteEnd("B", TRUE)
    /\ At("cdiff", "dup3") =>
          /\ fds["cdiff"][pa.r] = ReadEnd("A", TRUE)
          /\ fds["cdiff"][pb.r] = ReadEnd("B", TRUE)

\* C15's case: the parent has closed all four descriptors and is waiting
\* while the consumer has not yet taken its first step.
C15_Witness ==
    /\ At("parent", "wait")
    /\ At("cdiff", "dup3")
    /\ \A n \in FdNums : fds["parent"][n].pipe \notin {"A", "B"}

\* What a step in which closed_reader(0) returns in child c does.
EofInstalled(c) ==
    /\ fds'[c][0] = [pipe |-> c, end |-> "r", cx |-> FALSE]
    /\ \A n \in FdNums \ {0} : fds'[c][n] = fds[c][n]
    /\ \A q \in Procs \ {c} : fds'[q] = fds[q]
    /\ \A q \in Procs : \A n \in FdNums :
          ~(fds'[q][n].pipe = c /\ fds'[q][n].end = "w")

\* C16: whatever the caller's descriptor table, a step in which
\* closed_reader(0) returns in a child leaves descriptor 0 the read end of
\* a pipe of its own, inherited across exec, whose write end is open in no
\* process; every other descriptor of the child (1 in a producer, 3 and 4
\* in the consumer among them) and every other process's table is as
\* before, so no other new descriptor is left open.
C16_AlwaysEof ==
    [][\A c \in Children : At(c, "eof") /\ pc'[c] # "eof" => EofInstalled(c)]_vars

\* C16's case: closed_reader(0) has returned in the consumer of a run that
\* was started with descriptor 0 closed, so that pipe() returned 0.
C16_Witness ==
    /\ ~IsOpen(initTab, 0)
    /\ At("cdiff", "add1")
    /\ fds["cdiff"][0] = [pipe |-> "cdiff", end |-> "r", cx |-> FALSE]
    /\ AtEof("cdiff", 0)

\* The calls of the parent and of a producer that the claim names: pipe,
\* duplicate and fork in the parent; dup2, clear_cloexec, closed_reader and
\* exec in a producer.
FailFastSteps(q) ==
    IF q = "parent"
    THEN {"pipeA", "pipeB", "dupA0", "dupA1", "dupB0", "dupB1"} \cup ForkSteps
    ELSE {"dup2", "clr", "eof", "exec"}

\* The diagnostics err() is given in the parent and in producer().
Diagnostics ==
    {"pipe2", "fcntl F_DUPFD", "fork", "dup2", "fcntl F_GETFD", "fcntl F_SETFD",
     "pipe", "exec"}

\* A process in which one of these calls failed has exited with status 1
\* and a diagnostic at that very step.
FailedFast ==
    \A q \in {"parent"} \cup Producers : \A l \in bad[q] \cap FailFastSteps(q) :
       /\ st[q] = "exited"
       /\ code[q] = 1
       /\ diag[q] \in Diagnostics
       /\ pc[q] = l
       /\ bad[q] = {l}
       /\ \A m \in did[q] : ~Later(q, l, m)
       /\ execArgv[q] = NoExec

\* Such a process takes no further step: nothing is tried again.
NoStepAfterFailure ==
    \A q \in {"parent"} \cup Producers :
       bad[q] \cap FailFastSteps(q) # {} =>
          /\ pc'[q] = pc[q]
          /\ st'[q] = st[q]
          /\ did'[q] = did[q]
          /\ fds'[q] = fds[q]

\* C17: when pipe, duplicate or fork fails in the parent, or dup2,
\* clear_cloexec, closed_reader or exec in a producer, that process exits
\* with status 1 at once: it executes no later step and never tries the
\* call again.
C17_FailFast == []FailedFast /\ [][NoStepAfterFailure]_vars

\* C17's case: clearing close-on-exec failed in producer A, which has
\* exited with status 1 while the parent goes on.
C17_Witness ==
    /\ "clr" \in bad["ca"]
    /\ st["ca"] = "exited"
    /\ code["ca"] = 1
    /\ st["parent"] = "running"

\* No process of the run is running any more.
AllDone == \A q \in Procs : st[q] # "running"

\* C18, as claimed: with pipes of bounded capacity and fair scheduling,
\* commands that write a finite output and then terminate, and a diff that
\* terminates once it has read both inputs to the end in whatever order,
\* every child terminates and the parent returns from its wait and exits:
\* eventually no process of the run is running.
C18_Terminates == <>AllDone

\* C19: on the normal path, from the moment the parent starts waiting for
\* the consumer its descriptor table is the one it was started with: every
\* number pipe() returned and all of pa[0], pa[1], pb[0], pb[1] are closed,
\* and every descriptor open at the start is still open on the same stream
\* with the same flag.
C19_NoLeak ==
    NormalPath /\ st["parent"] = "running" /\ pc["parent"] \in {"wait", "ret"} =>
       /\ fds["parent"] = initTab
       /\ \A n \in origs \cup Kept : ~IsOpen(fds["parent"], n)
       /\ Cardinality(origs \cup Kept) >= 6

\* C19's case: the parent is waiting in a run that was started with
\* descriptors 0 and 1 closed and 2 open, so that pipe() returned 0 and 1.
C19_Witness ==
    /\ NormalPath
    /\ At("parent", "wait")
    /\ {0, 1} \subseteq origs
    /\ IsOpen(initTab, 2)
=============================================================================
